---- MODULE Spec2Model ----
(***************************************************************************)
(* The slideshow playback engine of src/src/main.js as a state machine.    *)
(*                                                                         *)
(* The browser is single threaded: every event listener, timer callback    *)
(* and image load/error callback runs to completion, so each is one        *)
(* action.  What is in flight between two callbacks (pending timeouts,     *)
(* live intervals, image loads) is state.                                  *)
(*                                                                         *)
(* Images are named by their position 1..NumImages in folderImages, which  *)
(* loadImagesFromFolder sorts by name; an image's url and name are both    *)
(* identified with that position.  JavaScript indices are 0-based and are  *)
(* kept 0-based in displayOrder, currentOrderIndex and currentImageIndex.  *)
(*                                                                         *)
(* Not modelled: the corner menu and the loading indicator (written by     *)
(* the handlers, read by none of them), imageDisplay.alt, the background   *)
(* colour, image compression.                                              *)
(***************************************************************************)
EXTENDS Integers, Sequences, FiniteSets, TLC

\* Number of images in the catalog (folderImages.length after loading).
NumImages == 2
\* Most displayImage transitions (image loads and fade timeouts) in flight.
MaxInflight == 2
\* Most pending resetSlideshowTimer timeouts.
MaxRestarts == 2
\* Longest list (file listing, selection, display order) a single function
\* is applied to in SpecCalls.
MaxLength == 5
\* Most tasks added to a download / processing queue.
MaxTasks == 3
\* Largest concurrency a queue is created with.
MaxConcurrency == 2
\* Largest MAX_RETRIES (--retries) of the download script.
MaxRetries == 2
\* Most redirects one download is answered with.
MaxRedirects == 1

\* JavaScript NaN (a remainder by 0) and undefined (an array read at NaN).
NaN == -1
Undefined == -2

\* The initial display duration (ms) and the look-ahead counts of the source.
DefaultDuration == 5000
PreloadOnEnter == 5
PreloadAhead == 3
PreloadBehind == 2

\* Values typed into the duration input: 0 is below the minimum, NaN is
\* what parseInt yields for text that is no number.
TypedSeconds == {NaN, 0, 2}

ImageIds == 1..NumImages

VARIABLES
    folderImages,       \* Seq(BOOLEAN): the selected flag of each catalog entry
    selectedImages,     \* Seq(ImageIds): folderImages.filter(selected)
    startButtonDisabled,
    displayOrder,       \* Seq(Nat): indices into selectedImages
    currentOrderIndex,
    currentImageIndex,
    slideshowInterval,  \* id of the interval, 0 for null/undefined
    intervals,          \* the browser's live setInterval timers: [id, period]
    restartTimeouts,    \* pending setTimeout(startSlideshow, 600) callbacks
    displayDuration,
    durationInput,      \* durationInput.value, in seconds
    randomizeOrder,
    fullscreen,         \* "none", "requested" (request pending) or "full"
    fullscreenSupported,
    active,             \* history: a session was entered and not yet exited
    preloadedImages,    \* set of images whose preload completed
    preloading,         \* images with a preload request in flight
    imageSrc,           \* imageDisplay.src
    imageInfo,          \* imageInfo.textContent
    fadeOut,            \* imageDisplay has class fade-out (else fade-in)
    imageLoads,         \* [ImageIds -> Nat]: displayImage loads in flight
    fadeTimeouts,       \* FIFO of pending 250 ms swap callbacks
    messageBox,         \* the message shown, "" when hidden
    lastEvent,          \* history, kept by SpecLive: what the last step was
    call,               \* SpecCalls: the function applied, its arguments and result
    concurrency,        \* createDownloadQueue / createQueue: the limit given
    tasks,              \* the queue's waiting tasks, in order
    running,
    completed,
    total,
    taskStarts,         \* [TaskIds -> Nat]: how often runTask started the task
    pendingIo,          \* started tasks whose promise a later event settles
    jobs,               \* the promise jobs (microtasks) pending, in order
    drained,            \* history: how often queue.onDrain was invoked
    lateAdd,            \* history: a task was added after another had completed
    download            \* downloadImage: the state of one download

catalogVars == <<folderImages, selectedImages, startButtonDisabled>>
cursorVars == <<displayOrder, currentOrderIndex, currentImageIndex>>
timerVars == <<slideshowInterval, intervals, restartTimeouts>>
settingVars == <<displayDuration, durationInput, randomizeOrder>>
screenVars == <<fullscreen, fullscreenSupported, active>>
preloadVars == <<preloadedImages, preloading>>
presentVars == <<imageSrc, imageInfo, fadeOut, imageLoads, fadeTimeouts>>

queueVars == <<concurrency, tasks, running, completed, total, taskStarts,
               pendingIo, jobs, drained, lateAdd>>
scriptVars == <<queueVars, download>>

vars == <<catalogVars, cursorVars, timerVars, settingVars, screenVars,
          preloadVars, presentVars, messageBox, lastEvent, call, scriptVars>>

\* The variables of the page.
pageVars == <<catalogVars, cursorVars, timerVars, settingVars, screenVars,
              preloadVars, presentVars, messageBox, lastEvent>>

----------------------------------------------------------------------------
(* Pure helpers *)

\* The filter letting every entry through.
FilterSelectedKeepsAll(flags) == [k \in 1..Len(flags) |-> k]

\* folderImages.filter(image => image.selected), in catalog order.
FilterSelected(flags) ==
    LET S == {i \in 1..Len(flags) : flags[i]}
    IN [k \in 1..Cardinality(S) |->
            CHOOSE i \in S : Cardinality({j \in S : j < i}) = k - 1]

\* a % b of JavaScript for a number a >= 0: NaN when b is 0.
JsMod(a, b) ==
    IF b = 0 THEN NaN ELSE a % b

\* arr[i] of JavaScript for a sequence holding 0-based positions.
JsAt(arr, i) ==
    IF i >= 0 /\ i < Len(arr) THEN arr[i + 1] ELSE Undefined

\* arr.indexOf(x): the first 0-based position of x, -1 when absent.
IndexOf(arr, x) ==
    IF \E k \in 1..Len(arr) : arr[k] = x
    THEN (CHOOSE k \in 1..Len(arr) :
             arr[k] = x /\ \A m \in 1..(k - 1) : arr[m] # x) - 1
    ELSE -1

\* Swap that copies order[j] over order[i] and loses order[i].
SwapLossy(order, i, j) ==
    [order EXCEPT ![i + 1] = order[j + 1]]

Swap(order, i, j) ==
    [order EXCEPT ![i + 1] = order[j + 1], ![j + 1] = order[i + 1]]

\* The Fisher-Yates loop from position i down to 1: every result that some
\* choice of the random j in 0..i can give.
RECURSIVE Shuffle(_, _)
Shuffle(order, i) ==
    IF i <= 0 THEN {order}
    ELSE UNION {Shuffle(Swap(order, i, j), i - 1) : j \in 0..i}

\* generateDisplayOrder shuffling whatever the randomize setting.
generateDisplayOrderAlwaysShuffles(length, randomize) ==
    IF length = 0 THEN {<<>>}
    ELSE Shuffle([k \in 1..length |-> k - 1], length - 1)

\* generateDisplayOrder(length): the set of orders it can return.
generateDisplayOrder(length, randomize) ==
    IF length = 0 THEN {<<>>}
    ELSE LET order == [k \in 1..length |-> k - 1]
         IN IF randomize THEN Shuffle(order, length - 1) ELSE {order}

\* The images preloadImages(startIndex, count) requests: those at
\* (startIndex + i) % length, 0 <= i < count, not yet in the cache.
\* The loop of preloadImages from iteration i on: the images it creates an
\* Image for, one entry per new Image(), in order.  The cache is what
\* preloadedImages holds at the call: onload fills it after the loop.
RECURSIVE PreloadLoop(_, _, _, _, _)
PreloadLoop(i, startIndex, count, list, cache) ==
    IF i >= count THEN <<>>
    ELSE LET imageUrl == list[((startIndex + i) % Len(list)) + 1]
         IN (IF imageUrl \in cache THEN <<>> ELSE <<imageUrl>>)
                \o PreloadLoop(i + 1, startIndex, count, list, cache)

\* The load requests one preloadImages call issues, in order.
PreloadIssued(startIndex, count, list, cache) ==
    IF Len(list) = 0 THEN <<>>
    ELSE PreloadLoop(0, startIndex, count, list, cache)

\* The elements of a sequence.
Range(seq) == {seq[k] : k \in 1..Len(seq)}

\* preloadImages without the skip of the images already preloaded.
PreloadRequestsIgnoringCache(startIndex, count, list, cache) ==
    IF Len(list) = 0 THEN {}
    ELSE Range(PreloadLoop(0, startIndex, count, list, {}))

PreloadRequests(startIndex, count, list, cache) ==
    Range(PreloadIssued(startIndex, count, list, cache))

\* folderImages.sort((a, b) => a.name.localeCompare(b.name)): a stable
\* insertion of each name after the names not greater than it.
InsertByName(sorted, name) ==
    LET k == Cardinality({m \in 1..Len(sorted) : sorted[m] <= name})
    IN SubSeq(sorted, 1, k) \o <<name>> \o SubSeq(sorted, k + 1, Len(sorted))

\* The listing kept in the order the directory gave it.
SortByNameSkipped(names) == names

RECURSIVE SortByName(_)
SortByName(names) ==
    IF Len(names) = 0 THEN <<>>
    ELSE InsertByName(SortByName(SubSeq(names, 1, Len(names) - 1)),
                      names[Len(names)])

\* The names of sampleImages in the order of the array literal, each name
\* written as its rank under localeCompare: landscape1, portrait1, square1,
\* panorama1, image1 ... image9, image10 ... image16 ("image1.jpg" sorts
\* before "image10.jpg" and that before "image2.jpg").
SampleImages ==
    <<17, 19, 20, 18, 1, 9, 10, 11, 12, 13, 14, 15, 16, 2, 3, 4, 5, 6, 7, 8>>

\* folderImageFiles after the fetch of /api/images: the listing of an ok
\* response, [] when the response is not ok or the fetch or the JSON
\* parsing throws.
FetchedListing(response, listing) ==
    IF response = "ok" THEN listing ELSE <<>>

\* The catalog built whatever folderImageFiles holds, with no fallback.
loadCatalogNoFallback(listing) ==
    [k \in 1..Len(SortByName(listing)) |->
        [name |-> SortByName(listing)[k], selected |-> TRUE]]

\* The catalog loadImagesFromFolder builds from folderImageFiles (the sample
\* images when it is empty): an entry per file, every entry selected,
\* sorted by name.
loadCatalog(listing) ==
    LET names == SortByName(IF Len(listing) = 0 THEN SampleImages ELSE listing)
    IN [k \in 1..Len(names) |-> [name |-> names[k], selected |-> TRUE]]

\* The listings of n files, named 1..n: the names in every order.
Listings(n) ==
    {l \in [1..n -> 1..n] : \A a, b \in 1..n : l[a] = l[b] => a = b}

\* Number of displayImage transitions in flight.
RECURSIVE SumLoads(_, _)
SumLoads(loads, n) ==
    IF n = 0 THEN 0 ELSE loads[n] + SumLoads(loads, n - 1)

Inflight == SumLoads(imageLoads, NumImages) + Len(fadeTimeouts)

----------------------------------------------------------------------------
(* Timer functions, on the pair (slideshowInterval, intervals) *)

IntervalIds(table) == {t.id : t \in table}

\* setInterval returns an id no live timer has.
FreshId(table) ==
    CHOOSE n \in 1..(Cardinality(table) + 1) :
        n \notin IntervalIds(table) /\ \A m \in 1..(n - 1) : m \in IntervalIds(table)

\* stopSlideshow: clearInterval(slideshowInterval); slideshowInterval = null.
stopSlideshow(T) ==
    [handle |-> 0, table |-> {t \in T.table : t.id # T.handle}]

\* startSlideshow without its leading stopSlideshow.
startSlideshowNoStop(T, length, duration) ==
    IF length > 1
    THEN [handle |-> FreshId(T.table),
          table |-> T.table \cup {[id |-> FreshId(T.table), period |-> duration]}]
    ELSE T

\* startSlideshow that also starts an interval for a single image.
startSlideshowAny(T, length, duration) ==
    LET S == stopSlideshow(T)
    IN IF length > 0
       THEN [handle |-> FreshId(S.table),
             table |-> S.table \cup {[id |-> FreshId(S.table), period |-> duration]}]
       ELSE S

\* startSlideshow: stop first, then an interval only for more than one image.
startSlideshow(T, length, duration) ==
    LET S == stopSlideshow(T)
    IN IF length > 1
       THEN [handle |-> FreshId(S.table),
             table |-> S.table \cup {[id |-> FreshId(S.table), period |-> duration]}]
       ELSE S

TimerState == [handle |-> slideshowInterval, table |-> intervals]

SetTimers(T, pending) ==
    /\ slideshowInterval' = T.handle
    /\ intervals' = T.table
    /\ restartTimeouts' = pending

\* resetSlideshowTimer that stops the interval and schedules no restart.
resetSlideshowTimerNoRestart ==
    IF slideshowInterval # 0
    THEN SetTimers(stopSlideshow(TimerState), restartTimeouts)
    ELSE UNCHANGED timerVars

\* resetSlideshowTimer: only when an interval is set, stop it and start a new
\* one 600 ms later.
resetSlideshowTimer ==
    IF slideshowInterval # 0
    THEN SetTimers(stopSlideshow(TimerState), restartTimeouts + 1)
    ELSE UNCHANGED timerVars

----------------------------------------------------------------------------
(* Presenter and preloader *)

ShowMessage(text) == messageBox' = text

IsIndex(index, list) == index >= 0 /\ index < Len(list)

\* displayImage(index) with imageList = selectedImages.
displayImage(index) ==
    IF IsIndex(index, selectedImages)
    THEN /\ fadeOut' = TRUE
         /\ imageLoads' = [imageLoads EXCEPT ![selectedImages[index + 1]] = @ + 1]
         /\ UNCHANGED <<imageSrc, imageInfo, fadeTimeouts>>
    ELSE IF Len(selectedImages) = 0
    THEN /\ fadeOut' = TRUE
         /\ fadeTimeouts' = Append(fadeTimeouts, [kind |-> "none", img |-> 0])
         /\ UNCHANGED <<imageSrc, imageInfo, imageLoads>>
    ELSE UNCHANGED presentVars

\* Whether displayImage(index) starts a transition.
Presents(index) == IsIndex(index, selectedImages) \/ Len(selectedImages) = 0

\* preloadImages(startIndex, count) for a numeric startIndex.
preloadImages(startIndex, count) ==
    /\ preloading' = preloading \cup
           PreloadRequests(startIndex, count, selectedImages, preloadedImages)
    /\ UNCHANGED preloadedImages

----------------------------------------------------------------------------
InitPage ==
    /\ folderImages = <<>>
    /\ selectedImages = <<>>
    /\ startButtonDisabled = FALSE
    /\ displayOrder = <<>>
    /\ currentOrderIndex = 0
    /\ currentImageIndex = 0
    /\ slideshowInterval = 0
    /\ intervals = {}
    /\ restartTimeouts = 0
    /\ displayDuration = DefaultDuration
    /\ durationInput = 5
    /\ randomizeOrder = FALSE
    /\ fullscreen = "none"
    /\ fullscreenSupported \in BOOLEAN
    /\ active = FALSE
    /\ preloadedImages = {}
    /\ preloading = {}
    /\ imageSrc = <<"blank", 0>>
    /\ imageInfo = <<"", 0>>
    /\ fadeOut = FALSE
    /\ imageLoads = [i \in ImageIds |-> 0]
    /\ fadeTimeouts = <<>>
    /\ messageBox = ""
    /\ lastEvent = "none"

\* No function is applied on its own outside SpecCalls.
NoCall == [fn |-> "none"]

\* The scripts of the repository are not running: no queue, no download.
NoDownload == [phase |-> "none"]

InitNoScripts ==
    /\ concurrency = 0
    /\ tasks = <<>>
    /\ running = 0
    /\ completed = 0
    /\ total = 0
    /\ taskStarts = <<>>
    /\ pendingIo = {}
    /\ jobs = <<>>
    /\ drained = 0
    /\ lateAdd = FALSE
    /\ download = NoDownload

Init == InitPage /\ call = NoCall /\ InitNoScripts

----------------------------------------------------------------------------
(* Catalog and selection *)

\* updateSelectedImages, with updateStartButtonText.
updateSelectedImages(flags) ==
    /\ folderImages' = flags
    /\ selectedImages' = FilterSelected(flags)
    /\ startButtonDisabled' = (Len(FilterSelected(flags)) = 0)

\* loadImagesFromFolder completes (the listing or the sample images): every
\* entry selected; initializeApp then reports the count.
LoadImagesFromFolder ==
    /\ folderImages = <<>>
    /\ \E listing \in Listings(NumImages) :
           updateSelectedImages([i \in 1..Len(loadCatalog(listing)) |->
                                    loadCatalog(listing)[i].selected])
    /\ ShowMessage("loaded")
    /\ UNCHANGED <<cursorVars, timerVars, settingVars, screenVars, preloadVars,
                   presentVars>>

\* The change listener writing the new state of checkbox i to every entry
\* but entry i's own, which it sets.
ThumbnailChangeClearsOthers(i) ==
    /\ updateSelectedImages([j \in 1..Len(folderImages) |->
                                IF j = i THEN ~folderImages[j] ELSE FALSE])
    /\ UNCHANGED <<cursorVars, timerVars, settingVars, screenVars, preloadVars,
                   presentVars, messageBox>>

\* The change listener of thumbnail i's checkbox.
ThumbnailChange(i) ==
    /\ updateSelectedImages([folderImages EXCEPT ![i] = ~@])
    /\ UNCHANGED <<cursorVars, timerVars, settingVars, screenVars, preloadVars,
                   presentVars, messageBox>>

SelectAllClick ==
    /\ updateSelectedImages([i \in 1..Len(folderImages) |-> TRUE])
    /\ ShowMessage("All photos selected.")
    /\ UNCHANGED <<cursorVars, timerVars, settingVars, screenVars, preloadVars,
                   presentVars>>

DeselectAllClick ==
    /\ updateSelectedImages([i \in 1..Len(folderImages) |-> FALSE])
    /\ ShowMessage("All photos deselected.")
    /\ UNCHANGED <<cursorVars, timerVars, settingVars, screenVars, preloadVars,
                   presentVars>>

----------------------------------------------------------------------------
(* Settings *)

\* The randomize listener showing the current image again after the
\* regeneration.
RandomizeChangePresents ==
    /\ randomizeOrder' = ~randomizeOrder
    /\ ShowMessage(IF randomizeOrder' THEN "random order" ELSE "sequential order")
    /\ IF slideshowInterval # 0
       THEN \E order \in generateDisplayOrder(Len(selectedImages), randomizeOrder') :
                /\ displayOrder' = order
                /\ currentOrderIndex' =
                       (IF IndexOf(order, currentImageIndex) = -1
                        THEN 0 ELSE IndexOf(order, currentImageIndex))
                /\ UNCHANGED currentImageIndex
       ELSE UNCHANGED cursorVars
    /\ IF slideshowInterval # 0
       THEN displayImage(currentImageIndex)
       ELSE UNCHANGED presentVars
    /\ UNCHANGED <<catalogVars, timerVars, displayDuration, durationInput,
                   screenVars, preloadVars>>

\* The change listener of the randomize checkbox.
RandomizeChange ==
    /\ randomizeOrder' = ~randomizeOrder
    /\ ShowMessage(IF randomizeOrder' THEN "random order" ELSE "sequential order")
    /\ IF slideshowInterval # 0
       THEN \E order \in generateDisplayOrder(Len(selectedImages), randomizeOrder') :
                /\ displayOrder' = order
                /\ currentOrderIndex' =
                       (IF IndexOf(order, currentImageIndex) = -1
                        THEN 0 ELSE IndexOf(order, currentImageIndex))
                /\ UNCHANGED currentImageIndex
       ELSE UNCHANGED cursorVars
    /\ UNCHANGED <<catalogVars, timerVars, displayDuration, durationInput,
                   screenVars, preloadVars, presentVars>>

\* A duration listener that stores the new duration and leaves a running
\* interval alone.
DurationChangeNoRestart(seconds) ==
    IF seconds # NaN /\ seconds >= 1
    THEN /\ displayDuration' = seconds * 1000
         /\ durationInput' = seconds
         /\ UNCHANGED <<catalogVars, cursorVars, timerVars, randomizeOrder,
                        screenVars, preloadVars, presentVars, messageBox>>
    ELSE /\ durationInput' = displayDuration \div 1000
         /\ ShowMessage("Duration must be at least 1 second.")
         /\ UNCHANGED <<catalogVars, cursorVars, timerVars, displayDuration,
                        randomizeOrder, screenVars, preloadVars, presentVars>>

\* A duration listener that leaves what was typed in the input when it
\* is invalid.
DurationChangeKeepsTyped(seconds) ==
    IF seconds # NaN /\ seconds >= 1
    THEN /\ displayDuration' = seconds * 1000
         /\ durationInput' = seconds
         /\ IF slideshowInterval # 0
            THEN SetTimers(startSlideshow(stopSlideshow(TimerState),
                                          Len(selectedImages), displayDuration'),
                           restartTimeouts)
            ELSE UNCHANGED timerVars
         /\ UNCHANGED <<catalogVars, cursorVars, randomizeOrder, screenVars,
                        preloadVars, presentVars, messageBox>>
    ELSE /\ durationInput' = seconds
         /\ ShowMessage("Duration must be at least 1 second.")
         /\ UNCHANGED <<catalogVars, cursorVars, timerVars, displayDuration,
                        randomizeOrder, screenVars, preloadVars, presentVars>>

\* The change listener of the duration input, after seconds was typed.
DurationChange(seconds) ==
    IF seconds # NaN /\ seconds >= 1
    THEN /\ displayDuration' = seconds * 1000
         /\ durationInput' = seconds
         /\ IF slideshowInterval # 0
            THEN SetTimers(startSlideshow(stopSlideshow(TimerState),
                                          Len(selectedImages), displayDuration'),
                           restartTimeouts)
            ELSE UNCHANGED timerVars
         /\ UNCHANGED <<catalogVars, cursorVars, randomizeOrder, screenVars,
                        preloadVars, presentVars, messageBox>>
    ELSE /\ durationInput' = displayDuration \div 1000
         /\ ShowMessage("Duration must be at least 1 second.")
         /\ UNCHANGED <<catalogVars, cursorVars, timerVars, displayDuration,
                        randomizeOrder, screenVars, preloadVars, presentVars>>

----------------------------------------------------------------------------
(* Entering and leaving fullscreen *)

\* requestFullscreen: read the settings, then ask the browser.
requestFullscreen ==
    /\ IF durationInput = NaN \/ durationInput * 1000 < 1000
       THEN displayDuration' = DefaultDuration /\ durationInput' = 5
       ELSE displayDuration' = durationInput * 1000 /\ UNCHANGED durationInput
    /\ UNCHANGED randomizeOrder
    /\ IF fullscreenSupported
       THEN fullscreen' = "requested" /\ UNCHANGED messageBox
       ELSE UNCHANGED fullscreen
            /\ ShowMessage("Fullscreen is not supported by your browser.")

\* A Start listener that requests fullscreen whatever is selected.
StartButtonClickNoCheck ==
    /\ fullscreen = "none"
    /\ ~startButtonDisabled
    /\ requestFullscreen
    /\ UNCHANGED <<catalogVars, cursorVars, timerVars, fullscreenSupported,
                   active, preloadVars, presentVars>>

\* The click listener of the Start button.
StartButtonClick ==
    /\ fullscreen = "none"
    /\ ~startButtonDisabled
    /\ IF Len(selectedImages) > 0
       THEN requestFullscreen
       ELSE /\ ShowMessage("No images available to display.")
            /\ UNCHANGED <<settingVars, fullscreen>>
    /\ UNCHANGED <<catalogVars, cursorVars, timerVars, fullscreenSupported,
                   active, preloadVars, presentVars>>

\* The browser rejects the pending fullscreen request.
FullscreenRejected ==
    /\ fullscreen = "requested"
    /\ fullscreen' = "none"
    /\ ShowMessage("Could not enter fullscreen")
    /\ UNCHANGED <<catalogVars, cursorVars, timerVars, settingVars,
                   fullscreenSupported, active, preloadVars, presentVars>>

\* A browser with only webkitRequestFullscreen / msRequestFullscreen denies
\* the pending request: those calls get no catch and the page listens to no
\* fullscreenerror event, so no handler runs.
FullscreenDeniedPrefixed ==
    /\ fullscreen = "requested"
    /\ fullscreen' = "none"
    /\ UNCHANGED <<catalogVars, cursorVars, timerVars, settingVars,
                   fullscreenSupported, active, preloadVars, presentVars,
                   messageBox>>

\* The entered branch leaving currentOrderIndex where the last session left it.
FullscreenEnteredKeepsCursor ==
    /\ fullscreen = "requested"
    /\ fullscreen' = "full"
    /\ IF Len(selectedImages) = 0
       THEN /\ ShowMessage("No images selected. Please select at least one image.")
            /\ UNCHANGED <<cursorVars, timerVars, active, preloadVars, presentVars>>
       ELSE /\ Inflight < MaxInflight
            /\ \E order \in generateDisplayOrder(Len(selectedImages), randomizeOrder) :
                 /\ displayOrder' = order
                 /\ currentOrderIndex' = currentOrderIndex
                 /\ currentImageIndex' = order[1]
                 /\ preloadImages(order[1], PreloadOnEnter)
                 /\ displayImage(order[1])
            /\ SetTimers(startSlideshow(TimerState, Len(selectedImages),
                                        displayDuration), restartTimeouts)
            /\ active' = TRUE
            /\ UNCHANGED messageBox
    /\ UNCHANGED <<catalogVars, settingVars, fullscreenSupported>>

\* handleFullscreenChange with isFullscreen true.  With nothing selected it
\* asks the browser to leave fullscreen again; that exit is a later
\* FullscreenExited.
FullscreenEntered ==
    /\ fullscreen = "requested"
    /\ fullscreen' = "full"
    /\ IF Len(selectedImages) = 0
       THEN /\ ShowMessage("No images selected. Please select at least one image.")
            /\ UNCHANGED <<cursorVars, timerVars, active, preloadVars, presentVars>>
       ELSE /\ Inflight < MaxInflight
            /\ \E order \in generateDisplayOrder(Len(selectedImages), randomizeOrder) :
                 /\ displayOrder' = order
                 /\ currentOrderIndex' = 0
                 /\ currentImageIndex' = order[1]
                 /\ preloadImages(order[1], PreloadOnEnter)
                 /\ displayImage(order[1])
            /\ SetTimers(startSlideshow(TimerState, Len(selectedImages),
                                        displayDuration), restartTimeouts)
            /\ active' = TRUE
            /\ UNCHANGED messageBox
    /\ UNCHANGED <<catalogVars, settingVars, fullscreenSupported>>

\* handleFullscreenChange with isFullscreen false (Escape, or exitFullscreen).
FullscreenExited ==
    /\ fullscreen = "full"
    /\ fullscreen' = "none"
    /\ SetTimers(stopSlideshow(TimerState), restartTimeouts)
    /\ preloadedImages' = {}
    /\ active' = FALSE
    /\ UNCHANGED <<catalogVars, cursorVars, settingVars, fullscreenSupported,
                   preloading, presentVars, messageBox>>

----------------------------------------------------------------------------
(* Navigation *)

\* The order position after nextImage (step 1) or previousImage (step -1):
\* (index + 1) % length, (index - 1 + length) % length; NaN stays NaN.
MovedIndexIn(order, index, step) ==
    IF index = NaN THEN NaN
    ELSE JsMod(index + step + (IF step < 0 THEN Len(order) ELSE 0), Len(order))

MovedIndex(index, step) == MovedIndexIn(displayOrder, index, step)

\* The cursor those two leave: the moved position and the order's entry there.
MovedCursorIn(order, cursor, step) ==
    [orderIndex |-> MovedIndexIn(order, cursor.orderIndex, step),
     imageIndex |-> JsAt(order, MovedIndexIn(order, cursor.orderIndex, step))]

MovedCursor(cursor, step) == MovedCursorIn(displayOrder, cursor, step)

Cursor == [orderIndex |-> currentOrderIndex, imageIndex |-> currentImageIndex]

\* nextImage (step 1, look-ahead 3) and previousImage (step -1, look-ahead 2).
\* With an empty displayOrder the cursor becomes NaN/undefined and
\* preloadImages throws on selectedImages[NaN].url, before the timer reset.
Navigate(step, count) ==
    IF Len(selectedImages) = 0
    THEN UNCHANGED vars
    ELSE LET moved == MovedCursor(Cursor, step)
             ahead == MovedCursor(moved, step).imageIndex
         IN /\ Presents(moved.imageIndex) => Inflight < MaxInflight
            /\ (ahead # Undefined /\ slideshowInterval # 0)
                   => restartTimeouts < MaxRestarts
            /\ currentOrderIndex' = moved.orderIndex
            /\ currentImageIndex' = moved.imageIndex
            /\ displayImage(moved.imageIndex)
            /\ IF ahead = Undefined
               THEN UNCHANGED <<preloadVars, timerVars>>
               ELSE preloadImages(ahead, count) /\ resetSlideshowTimer
            /\ UNCHANGED <<catalogVars, displayOrder, settingVars, screenVars,
                           messageBox>>

nextImage == Navigate(1, PreloadAhead)

previousImage == Navigate(-1, PreloadBehind)

\* keydown ArrowRight or Space, handled only in fullscreen.
KeyNext == fullscreen = "full" /\ nextImage

\* keydown ArrowLeft.
KeyPrevious == fullscreen = "full" /\ previousImage

\* A live interval fires: setInterval(nextImage, displayDuration).
IntervalTick == intervals # {} /\ nextImage

\* A pending setTimeout of resetSlideshowTimer fires: startSlideshow().
RestartTimeout ==
    /\ restartTimeouts > 0
    /\ SetTimers(startSlideshow(TimerState, Len(selectedImages), displayDuration),
                 restartTimeouts - 1)
    /\ UNCHANGED <<catalogVars, cursorVars, settingVars, screenVars, preloadVars,
                   presentVars, messageBox>>

\* The click listener of the Restart button.
RestartButtonClick ==
    /\ fullscreen = "full"
    /\ currentImageIndex' = 0
    /\ IF Len(selectedImages) > 0
       THEN /\ Inflight < MaxInflight
            /\ displayImage(0)
            /\ SetTimers(startSlideshow(stopSlideshow(TimerState),
                                        Len(selectedImages), displayDuration),
                         restartTimeouts)
       ELSE /\ SetTimers(stopSlideshow(TimerState), restartTimeouts)
            /\ UNCHANGED presentVars
    /\ UNCHANGED <<catalogVars, displayOrder, currentOrderIndex, settingVars,
                   screenVars, preloadVars, messageBox>>

----------------------------------------------------------------------------
(* Callbacks of the presenter, the preloader and showMessage *)

\* nextImage.onload of a displayImage call for image i.
ImageLoaded(i) ==
    /\ imageLoads[i] > 0
    /\ imageLoads' = [imageLoads EXCEPT ![i] = @ - 1]
    /\ fadeTimeouts' = Append(fadeTimeouts, [kind |-> "ok", img |-> i])
    /\ UNCHANGED <<catalogVars, cursorVars, timerVars, settingVars, screenVars,
                   preloadVars, imageSrc, imageInfo, fadeOut, messageBox>>

\* An onerror that gives the session up: it clears the interval.
ImageErrorStops(i) ==
    /\ imageLoads[i] > 0
    /\ imageLoads' = [imageLoads EXCEPT ![i] = @ - 1]
    /\ fadeTimeouts' = Append(fadeTimeouts, [kind |-> "error", img |-> i])
    /\ SetTimers(stopSlideshow(TimerState), restartTimeouts)
    /\ UNCHANGED <<catalogVars, cursorVars, settingVars, screenVars,
                   preloadVars, imageSrc, imageInfo, fadeOut, messageBox>>

\* nextImage.onerror of a displayImage call for image i.
ImageError(i) ==
    /\ imageLoads[i] > 0
    /\ imageLoads' = [imageLoads EXCEPT ![i] = @ - 1]
    /\ fadeTimeouts' = Append(fadeTimeouts, [kind |-> "error", img |-> i])
    /\ UNCHANGED <<catalogVars, cursorVars, timerVars, settingVars, screenVars,
                   preloadVars, imageSrc, imageInfo, fadeOut, messageBox>>

\* The oldest pending 250 ms timeout of displayImage fires: swap and fade in.
FadeTimeout ==
    /\ fadeTimeouts # <<>>
    /\ LET f == Head(fadeTimeouts)
       IN /\ imageSrc' = (IF f.kind = "ok" THEN <<"image", f.img>>
                          ELSE IF f.kind = "error" THEN <<"error-placeholder", 0>>
                          ELSE <<"no-images-placeholder", 0>>)
          /\ imageInfo' = (IF f.kind = "ok" THEN <<"name", f.img>>
                           ELSE IF f.kind = "error" THEN <<"Error loading", f.img>>
                           ELSE <<"", 0>>)
    /\ fadeOut' = FALSE
    /\ fadeTimeouts' = Tail(fadeTimeouts)
    /\ UNCHANGED <<catalogVars, cursorVars, timerVars, settingVars, screenVars,
                   preloadVars, imageLoads, messageBox>>

\* img.onload of a preload of image i.  preloading is a set: a second request
\* for i may still be in flight, so i may stay in it.
PreloadLoaded(i) ==
    /\ i \in preloading
    /\ preloadedImages' = preloadedImages \cup {i}
    /\ preloading' \in {preloading, preloading \ {i}}
    /\ UNCHANGED <<catalogVars, cursorVars, timerVars, settingVars, screenVars,
                   presentVars, messageBox>>

\* A preload onerror that records the image in the cache all the same.
PreloadErrorRecords(i) ==
    /\ i \in preloading
    /\ preloading' = preloading \ {i}
    /\ preloadedImages' = preloadedImages \cup {i}
    /\ UNCHANGED <<catalogVars, cursorVars, timerVars, settingVars, screenVars,
                   presentVars, messageBox>>

\* img.onerror of a preload of image i.
PreloadError(i) ==
    /\ i \in preloading
    /\ preloading' = preloading \ {i}
    /\ UNCHANGED <<catalogVars, cursorVars, timerVars, settingVars, screenVars,
                   preloadedImages, presentVars, messageBox>>

\* A hide timeout of showMessage fires while a message is shown.
MessageTimeout ==
    /\ messageBox # ""
    /\ messageBox' = ""
    /\ UNCHANGED <<catalogVars, cursorVars, timerVars, settingVars, screenVars,
                   preloadVars, presentVars>>

----------------------------------------------------------------------------
(* Specifications *)

\* No preload is in flight and no message is shown.
QuietNet == preloading = {} /\ messageBox = ""

\* Nor is an image load or a fade of displayImage in flight.
Quiet == QuietNet /\ Inflight = 0

\* Playback under a prompt, reliable network: commands, fullscreen changes
\* and the playback timers (interval ticks, delayed restarts) interleave
\* freely; the loads, fades and message timeouts a handler started finish
\* before the next of them.  No handler of the controller reads what those
\* callbacks write.
Next ==
    \/ LoadImagesFromFolder /\ UNCHANGED <<lastEvent, call, scriptVars>>
    \/ \E i \in 1..Len(folderImages) : Quiet /\ ThumbnailChange(i) /\ UNCHANGED <<lastEvent, call, scriptVars>>
    \/ Quiet /\ SelectAllClick /\ UNCHANGED <<lastEvent, call, scriptVars>>
    \/ Quiet /\ DeselectAllClick /\ UNCHANGED <<lastEvent, call, scriptVars>>
    \/ Quiet /\ RandomizeChange /\ UNCHANGED <<lastEvent, call, scriptVars>>
    \/ \E seconds \in TypedSeconds : Quiet /\ DurationChange(seconds) /\ UNCHANGED <<lastEvent, call, scriptVars>>
    \/ Quiet /\ StartButtonClick /\ UNCHANGED <<lastEvent, call, scriptVars>>
    \/ Quiet /\ FullscreenRejected /\ UNCHANGED <<lastEvent, call, scriptVars>>
    \/ Quiet /\ FullscreenDeniedPrefixed /\ UNCHANGED <<lastEvent, call, scriptVars>>
    \/ Quiet /\ FullscreenEntered /\ UNCHANGED <<lastEvent, call, scriptVars>>
    \/ Quiet /\ FullscreenExited /\ UNCHANGED <<lastEvent, call, scriptVars>>
    \/ Quiet /\ KeyNext /\ UNCHANGED <<lastEvent, call, scriptVars>>
    \/ Quiet /\ KeyPrevious /\ UNCHANGED <<lastEvent, call, scriptVars>>
    \/ Quiet /\ RestartButtonClick /\ UNCHANGED <<lastEvent, call, scriptVars>>
    \/ Quiet /\ IntervalTick /\ UNCHANGED <<lastEvent, call, scriptVars>>
    \/ Quiet /\ RestartTimeout /\ UNCHANGED <<lastEvent, call, scriptVars>>
    \/ \E i \in ImageIds : ImageLoaded(i) /\ UNCHANGED <<lastEvent, call, scriptVars>>
    \/ FadeTimeout /\ UNCHANGED <<lastEvent, call, scriptVars>>
    \/ \E i \in ImageIds : PreloadLoaded(i) /\ UNCHANGED <<lastEvent, call, scriptVars>>
    \/ MessageTimeout /\ UNCHANGED <<lastEvent, call, scriptVars>>

Spec == Init /\ [][Next]_vars

\* The thumbnails lie under the fullscreen container.
Windowed == fullscreen # "full"

\* As Spec, with the selection changed only while the page is not fullscreen:
\* the selection of a session is the one it was entered with.
NextSession ==
    \/ LoadImagesFromFolder /\ UNCHANGED <<lastEvent, call, scriptVars>>
    \/ \E i \in 1..Len(folderImages) : Quiet /\ Windowed /\ ThumbnailChange(i) /\ UNCHANGED <<lastEvent, call, scriptVars>>
    \/ Quiet /\ Windowed /\ SelectAllClick /\ UNCHANGED <<lastEvent, call, scriptVars>>
    \/ Quiet /\ Windowed /\ DeselectAllClick /\ UNCHANGED <<lastEvent, call, scriptVars>>
    \/ Quiet /\ RandomizeChange /\ UNCHANGED <<lastEvent, call, scriptVars>>
    \/ \E seconds \in TypedSeconds : Quiet /\ DurationChange(seconds) /\ UNCHANGED <<lastEvent, call, scriptVars>>
    \/ Quiet /\ StartButtonClick /\ UNCHANGED <<lastEvent, call, scriptVars>>
    \/ Quiet /\ FullscreenRejected /\ UNCHANGED <<lastEvent, call, scriptVars>>
    \/ Quiet /\ FullscreenDeniedPrefixed /\ UNCHANGED <<lastEvent, call, scriptVars>>
    \/ Quiet /\ FullscreenEntered /\ UNCHANGED <<lastEvent, call, scriptVars>>
    \/ Quiet /\ FullscreenExited /\ UNCHANGED <<lastEvent, call, scriptVars>>
    \/ Quiet /\ KeyNext /\ UNCHANGED <<lastEvent, call, scriptVars>>
    \/ Quiet /\ KeyPrevious /\ UNCHANGED <<lastEvent, call, scriptVars>>
    \/ Quiet /\ RestartButtonClick /\ UNCHANGED <<lastEvent, call, scriptVars>>
    \/ Quiet /\ IntervalTick /\ UNCHANGED <<lastEvent, call, scriptVars>>
    \/ Quiet /\ RestartTimeout /\ UNCHANGED <<lastEvent, call, scriptVars>>
    \/ \E i \in ImageIds : ImageLoaded(i) /\ UNCHANGED <<lastEvent, call, scriptVars>>
    \/ FadeTimeout /\ UNCHANGED <<lastEvent, call, scriptVars>>
    \/ \E i \in ImageIds : PreloadLoaded(i) /\ UNCHANGED <<lastEvent, call, scriptVars>>
    \/ MessageTimeout /\ UNCHANGED <<lastEvent, call, scriptVars>>

SpecSession == Init /\ [][NextSession]_vars

\* The presenter under a slow, unreliable network: image loads succeed or
\* fail, and the loads and fades of displayImage overlap with navigation,
\* timers and Exit.  All images stay selected and the settings stay as loaded.
NextPresent ==
    \/ LoadImagesFromFolder /\ UNCHANGED <<lastEvent, call, scriptVars>>
    \/ QuietNet /\ StartButtonClick /\ UNCHANGED <<lastEvent, call, scriptVars>>
    \/ QuietNet /\ FullscreenRejected /\ UNCHANGED <<lastEvent, call, scriptVars>>
    \/ QuietNet /\ FullscreenDeniedPrefixed /\ UNCHANGED <<lastEvent, call, scriptVars>>
    \/ QuietNet /\ FullscreenEntered /\ UNCHANGED <<lastEvent, call, scriptVars>>
    \/ QuietNet /\ FullscreenExited /\ UNCHANGED <<lastEvent, call, scriptVars>>
    \/ QuietNet /\ KeyNext /\ UNCHANGED <<lastEvent, call, scriptVars>>
    \/ QuietNet /\ KeyPrevious /\ UNCHANGED <<lastEvent, call, scriptVars>>
    \/ QuietNet /\ RestartButtonClick /\ UNCHANGED <<lastEvent, call, scriptVars>>
    \/ QuietNet /\ IntervalTick /\ UNCHANGED <<lastEvent, call, scriptVars>>
    \/ QuietNet /\ RestartTimeout /\ UNCHANGED <<lastEvent, call, scriptVars>>
    \/ \E i \in ImageIds : ImageLoaded(i) /\ UNCHANGED <<lastEvent, call, scriptVars>>
    \/ \E i \in ImageIds : ImageError(i) /\ UNCHANGED <<lastEvent, call, scriptVars>>
    \/ FadeTimeout /\ UNCHANGED <<lastEvent, call, scriptVars>>
    \/ \E i \in ImageIds : PreloadLoaded(i) /\ UNCHANGED <<lastEvent, call, scriptVars>>
    \/ \E i \in ImageIds : PreloadError(i) /\ UNCHANGED <<lastEvent, call, scriptVars>>
    \/ MessageTimeout /\ UNCHANGED <<lastEvent, call, scriptVars>>

SpecPresent == Init /\ [][NextPresent]_vars

\* No image load or fade of displayImage is in flight, no message is shown.
Calm == Inflight = 0 /\ messageBox = ""

\* Playback over an unreliable network with slow preloads: image loads and
\* preloads succeed or fail, and preloads stay in flight across navigation,
\* timers, Exit and the next Enter.  All images stay selected and the
\* settings stay as loaded.
NextNetwork ==
    \/ LoadImagesFromFolder /\ UNCHANGED <<lastEvent, call, scriptVars>>
    \/ Calm /\ StartButtonClick /\ UNCHANGED <<lastEvent, call, scriptVars>>
    \/ Calm /\ FullscreenRejected /\ UNCHANGED <<lastEvent, call, scriptVars>>
    \/ Calm /\ FullscreenDeniedPrefixed /\ UNCHANGED <<lastEvent, call, scriptVars>>
    \/ Calm /\ FullscreenEntered /\ UNCHANGED <<lastEvent, call, scriptVars>>
    \/ Calm /\ FullscreenExited /\ UNCHANGED <<lastEvent, call, scriptVars>>
    \/ Calm /\ KeyNext /\ UNCHANGED <<lastEvent, call, scriptVars>>
    \/ Calm /\ KeyPrevious /\ UNCHANGED <<lastEvent, call, scriptVars>>
    \/ Calm /\ IntervalTick /\ UNCHANGED <<lastEvent, call, scriptVars>>
    \/ Calm /\ RestartTimeout /\ UNCHANGED <<lastEvent, call, scriptVars>>
    \/ \E i \in ImageIds : ImageLoaded(i) /\ UNCHANGED <<lastEvent, call, scriptVars>>
    \/ \E i \in ImageIds : ImageError(i) /\ UNCHANGED <<lastEvent, call, scriptVars>>
    \/ FadeTimeout /\ UNCHANGED <<lastEvent, call, scriptVars>>
    \/ \E i \in ImageIds : PreloadLoaded(i) /\ UNCHANGED <<lastEvent, call, scriptVars>>
    \/ \E i \in ImageIds : PreloadError(i) /\ UNCHANGED <<lastEvent, call, scriptVars>>
    \/ MessageTimeout /\ UNCHANGED <<lastEvent, call, scriptVars>>

SpecNetwork == Init /\ [][NextNetwork]_vars

\* A session left to itself: as SpecSession with every image selected and
\* image loads that succeed or fail, each step recorded in lastEvent as a
\* command of the user or the browser ("user"), a tick of the interval
\* ("tick") or another callback.  The event loop runs every timer and
\* callback that stays due.
LiveTick == Quiet /\ IntervalTick /\ lastEvent' = "tick" /\ UNCHANGED <<call, scriptVars>>

LiveRestartTimeout == Quiet /\ RestartTimeout /\ lastEvent' = "callback" /\ UNCHANGED <<call, scriptVars>>

LiveImageSettled(i) ==
    (ImageLoaded(i) \/ ImageError(i)) /\ lastEvent' = "callback" /\ UNCHANGED <<call, scriptVars>>

LiveFadeTimeout == FadeTimeout /\ lastEvent' = "callback" /\ UNCHANGED <<call, scriptVars>>

LivePreloadLoaded(i) == PreloadLoaded(i) /\ lastEvent' = "callback" /\ UNCHANGED <<call, scriptVars>>

LiveMessageTimeout == MessageTimeout /\ lastEvent' = "callback" /\ UNCHANGED <<call, scriptVars>>

NextLive ==
    \/ LoadImagesFromFolder /\ lastEvent' = "callback" /\ UNCHANGED <<call, scriptVars>>
    \/ Quiet /\ StartButtonClick /\ lastEvent' = "user" /\ UNCHANGED <<call, scriptVars>>
    \/ Quiet /\ FullscreenRejected /\ lastEvent' = "user" /\ UNCHANGED <<call, scriptVars>>
    \/ Quiet /\ FullscreenDeniedPrefixed /\ lastEvent' = "user" /\ UNCHANGED <<call, scriptVars>>
    \/ Quiet /\ FullscreenEntered /\ lastEvent' = "user" /\ UNCHANGED <<call, scriptVars>>
    \/ Quiet /\ FullscreenExited /\ lastEvent' = "user" /\ UNCHANGED <<call, scriptVars>>
    \/ Quiet /\ KeyNext /\ lastEvent' = "user" /\ UNCHANGED <<call, scriptVars>>
    \/ Quiet /\ KeyPrevious /\ lastEvent' = "user" /\ UNCHANGED <<call, scriptVars>>
    \/ Quiet /\ RestartButtonClick /\ lastEvent' = "user" /\ UNCHANGED <<call, scriptVars>>
    \/ Quiet /\ RandomizeChange /\ lastEvent' = "user" /\ UNCHANGED <<call, scriptVars>>
    \/ \E seconds \in TypedSeconds :
           Quiet /\ DurationChange(seconds) /\ lastEvent' = "user" /\ UNCHANGED <<call, scriptVars>>
    \/ LiveTick
    \/ LiveRestartTimeout
    \/ \E i \in ImageIds : LiveImageSettled(i)
    \/ LiveFadeTimeout
    \/ \E i \in ImageIds : LivePreloadLoaded(i)
    \/ LiveMessageTimeout

SpecLive ==
    /\ Init
    /\ [][NextLive]_vars
    /\ WF_vars(LiveTick)
    /\ WF_vars(LiveRestartTimeout)
    /\ \A i \in ImageIds : WF_vars(LiveImageSettled(i))
    /\ WF_vars(LiveFadeTimeout)
    /\ \A i \in ImageIds : WF_vars(LivePreloadLoaded(i))
    /\ WF_vars(LiveMessageTimeout)

----------------------------------------------------------------------------
\* The functions of main.js applied on their own: Init draws the arguments
\* from bounded sets and one action per function applies it.

\* A selection of n images, the image at selection index k being image k + 1.
SelectionOf(n) == [k \in 1..n |-> k]

GenerateCalls ==
    {[fn |-> "generateDisplayOrder", length |-> n, randomize |-> r,
      done |-> FALSE, order |-> <<>>] : n \in 0..MaxLength, r \in BOOLEAN}

NavigateCalls ==
    UNION {UNION {{[fn |-> f, displayOrder |-> o, currentOrderIndex |-> p,
                    done |-> FALSE, cursor |-> [orderIndex |-> p,
                                                imageIndex |-> o[p + 1]],
                    requested |-> {}] :
                      p \in 0..(n - 1), f \in {"nextImage", "previousImage"}} :
                  o \in generateDisplayOrder(n, TRUE)} : n \in 1..MaxLength}

PreloadCalls ==
    UNION {{[fn |-> "preloadImages", length |-> n, startIndex |-> st,
             count |-> c, cache |-> ch, done |-> FALSE, requested |-> {},
             issued |-> <<>>] :
               st \in 0..(IF n = 0 THEN 0 ELSE n - 1),
               c \in {PreloadBehind, PreloadAhead, PreloadOnEnter},
               ch \in SUBSET (1..n)} : n \in 0..MaxLength}

LoadCalls ==
    UNION {{[fn |-> "loadImagesFromFolder", response |-> "ok", listing |-> l,
             done |-> FALSE, folderImages |-> <<>>, selectedImages |-> <<>>] :
               l \in Listings(n)} : n \in 0..MaxLength}
    \cup {[fn |-> "loadImagesFromFolder", response |-> r, listing |-> <<>>,
           done |-> FALSE, folderImages |-> <<>>, selectedImages |-> <<>>] :
             r \in {"notOk", "error"}}

InitCalls ==
    /\ InitPage
    /\ InitNoScripts
    /\ \/ call \in GenerateCalls
       \/ call \in NavigateCalls
       \/ call \in PreloadCalls
       \/ call \in LoadCalls

\* generateDisplayOrder(length) under the randomize setting of the call.
CallGenerateDisplayOrder ==
    /\ call.fn = "generateDisplayOrder" /\ ~call.done
    /\ \E order \in generateDisplayOrder(call.length, call.randomize) :
           call' = [call EXCEPT !.done = TRUE, !.order = order]
    /\ UNCHANGED <<pageVars, scriptVars>>

\* The cursor nextImage / previousImage leaves and the images its
\* preloadImages call requests, nothing being cached.
CallNavigate(fn, step, count) ==
    /\ call.fn = fn /\ ~call.done
    /\ LET order == call.displayOrder
           moved == MovedCursorIn(order, call.cursor, step)
           ahead == MovedCursorIn(order, moved, step).imageIndex
       IN call' = [call EXCEPT
                      !.done = TRUE,
                      !.cursor = moved,
                      !.requested = PreloadRequests(ahead, count,
                                        SelectionOf(Len(order)), {})]
    /\ UNCHANGED <<pageVars, scriptVars>>

CallNextImage == CallNavigate("nextImage", 1, PreloadAhead)

CallPreviousImage == CallNavigate("previousImage", -1, PreloadBehind)

CallPreloadImages ==
    /\ call.fn = "preloadImages" /\ ~call.done
    /\ call' = [call EXCEPT
                   !.done = TRUE,
                   !.requested = PreloadRequests(call.startIndex, call.count,
                                     SelectionOf(call.length), call.cache),
                   !.issued = PreloadIssued(call.startIndex, call.count,
                                  SelectionOf(call.length), call.cache)]
    /\ UNCHANGED <<pageVars, scriptVars>>

\* loadImagesFromFolder on the listing: the catalog and, by its closing
\* updateSelectedImages, the selected entries in catalog order.
CallLoadImagesFromFolder ==
    /\ call.fn = "loadImagesFromFolder" /\ ~call.done
    /\ LET catalog == loadCatalog(FetchedListing(call.response, call.listing))
           chosen == FilterSelected([k \in 1..Len(catalog) |->
                                        catalog[k].selected])
       IN call' = [call EXCEPT
                      !.done = TRUE,
                      !.folderImages = catalog,
                      !.selectedImages = [k \in 1..Len(chosen) |->
                                             catalog[chosen[k]].name]]
    /\ UNCHANGED <<pageVars, scriptVars>>

NextCalls ==
    \/ CallGenerateDisplayOrder
    \/ CallNextImage
    \/ CallPreviousImage
    \/ CallPreloadImages
    \/ CallLoadImagesFromFolder

SpecCalls == InitCalls /\ [][NextCalls]_vars

----------------------------------------------------------------------------
(* The task queue of the download and compression scripts *)

TaskIds == 1..MaxTasks

\* createDownloadQueue(concurrency) / createQueue(concurrency): PARALLEL_LIMIT
\* is parseInt of --parallel, 0 included, or at least 1 by default.
InitQueue ==
    /\ InitPage
    /\ call = NoCall
    /\ concurrency \in 0..MaxConcurrency
    /\ tasks = <<>>
    /\ running = 0
    /\ completed = 0
    /\ total = 0
    /\ taskStarts = [t \in TaskIds |-> 0]
    /\ pendingIo = {}
    /\ jobs = <<>>
    /\ drained = 0
    /\ lateAdd = FALSE
    /\ download = NoDownload

\* The tasks waiting in the queue.
Waiting == {tasks[k] : k \in 1..Len(tasks)}

\* runTask(task): running++ and task() is called.  An async task that awaits
\* nothing pending (a file that exists, an image under the size limit)
\* settles in the same turn and the first job of its then/catch/finally
\* chain is queued behind the jobs pending (pendingJobs); any other task is
\* settled by a later event.  by names the caller: "add" or "finally".
runTask(task, immediate, ok, by, pendingJobs) ==
    /\ running' = running + 1
    /\ taskStarts' = [taskStarts EXCEPT ![task] = @ + 1]
    /\ IF immediate
       THEN /\ jobs' = Append(pendingJobs,
                              [job |-> 1, task |-> task, ok |-> ok, by |-> by])
            /\ UNCHANGED pendingIo
       ELSE /\ jobs' = pendingJobs
            /\ pendingIo' = pendingIo \cup {task}

\* add starting every task at once, whatever is running.
addWithoutLimit(task) ==
    /\ taskStarts[task] = 0 /\ task \notin Waiting
    /\ \A k \in 1..Len(jobs) : jobs[k].job = 1 /\ jobs[k].by = "add"
    /\ total' = total + 1
    /\ lateAdd' = (lateAdd \/ completed > 0)
    /\ \E immediate \in BOOLEAN, ok \in BOOLEAN :
           runTask(task, immediate, ok, "add", jobs)
    /\ UNCHANGED <<tasks, concurrency, completed, drained, download, pageVars,
                   call>>

\* queue.add(task), called in a turn of its own or, as the loops of
\* downloadAllImages and processImages do, several times in one turn: no
\* promise job runs between the calls of one turn.
add(task) ==
    /\ taskStarts[task] = 0 /\ task \notin Waiting
    /\ \A k \in 1..Len(jobs) : jobs[k].job = 1 /\ jobs[k].by = "add"
    /\ total' = total + 1
    /\ lateAdd' = (lateAdd \/ completed > 0)
    /\ IF running < concurrency
       THEN /\ \E immediate \in BOOLEAN, ok \in BOOLEAN :
                  runTask(task, immediate, ok, "add", jobs)
            /\ UNCHANGED tasks
       ELSE /\ tasks' = Append(tasks, task)
            /\ UNCHANGED <<running, taskStarts, pendingIo, jobs>>
    /\ UNCHANGED <<concurrency, completed, drained, download, pageVars, call>>

\* An event (a download finished or failed, sharp done) settles the promise
\* of a running task: the first job of its chain is queued.
TaskSettles(task) ==
    /\ task \in pendingIo
    /\ jobs = <<>>
    /\ pendingIo' = pendingIo \ {task}
    /\ \E ok \in BOOLEAN :
           jobs' = <<[job |-> 1, task |-> task, ok |-> ok, by |-> "event"]>>
    /\ UNCHANGED <<concurrency, tasks, running, completed, total, taskStarts,
                   drained, lateAdd, download, pageVars, call>>

\* The job of task().then(result => ...): the callback runs when the task
\* fulfilled, a rejection passes through.
ThenJob ==
    /\ jobs # <<>> /\ Head(jobs).job = 1
    /\ IF Head(jobs).ok
       THEN running' = running - 1 /\ completed' = completed + 1
       ELSE UNCHANGED <<running, completed>>
    /\ jobs' = Append(Tail(jobs), [Head(jobs) EXCEPT !.job = 2])
    /\ UNCHANGED <<concurrency, tasks, total, taskStarts, pendingIo, drained,
                   lateAdd, download, pageVars, call>>

\* The job of .catch(err => ...): the callback runs when the task rejected.
CatchJob ==
    /\ jobs # <<>> /\ Head(jobs).job = 2
    /\ IF Head(jobs).ok
       THEN UNCHANGED <<running, completed>>
       ELSE running' = running - 1 /\ completed' = completed + 1
    /\ jobs' = Append(Tail(jobs), [Head(jobs) EXCEPT !.job = 3])
    /\ UNCHANGED <<concurrency, tasks, total, taskStarts, pendingIo, drained,
                   lateAdd, download, pageVars, call>>

\* The job of .finally(() => ...): start the next waiting task, or invoke
\* onDrain when none waits and none runs.
FinallyJob ==
    /\ jobs # <<>> /\ Head(jobs).job = 3
    /\ IF Len(tasks) > 0
       THEN /\ tasks' = Tail(tasks)
            /\ \E immediate \in BOOLEAN, ok \in BOOLEAN :
                  runTask(Head(tasks), immediate, ok, "finally", Tail(jobs))
            /\ UNCHANGED drained
       ELSE /\ jobs' = Tail(jobs)
            /\ drained' = (IF running = 0 THEN drained + 1 ELSE drained)
            /\ UNCHANGED <<tasks, running, taskStarts, pendingIo>>
    /\ UNCHANGED <<concurrency, completed, total, lateAdd, download, pageVars,
                   call>>

NextQueue ==
    \/ \E task \in TaskIds : add(task)
    \/ \E task \in TaskIds : TaskSettles(task)
    \/ ThenJob
    \/ CatchJob
    \/ FinallyJob

SpecQueue == InitQueue /\ [][NextQueue]_vars

----------------------------------------------------------------------------
(* downloadImage of the download script, for one file *)

\* The queue is not used.
QueueUnused ==
    /\ concurrency = 0
    /\ tasks = <<>>
    /\ running = 0
    /\ completed = 0
    /\ total = 0
    /\ taskStarts = <<>>
    /\ pendingIo = {}
    /\ jobs = <<>>
    /\ drained = 0
    /\ lateAdd = FALSE

\* downloadImage(url, filename) is about to be called with retryCount 0;
\* the file is there already ("complete") or not ("absent").
InitDownload ==
    /\ InitPage
    /\ call = NoCall
    /\ QueueUnused
    /\ \E retries \in 0..MaxRetries, file \in {"absent", "complete"} :
           download = [phase |-> "called", MAX_RETRIES |-> retries,
                       retryCount |-> 0, file |-> file,
                       existed |-> (file = "complete"), requests |-> 0,
                       failures |-> 0, redirects |-> 0, result |-> "none",
                       counted |-> "none"]

\* The task of downloadAllImages files the name under downloaded, skipped or
\* failed by the result's success and skipped fields.
Tally(result) ==
    IF result = "failed" THEN "failed"
    ELSE IF result = "skipped" THEN "skipped" ELSE "downloaded"

\* downloadImage returns result and the task counts it.
Returned(d, result) ==
    [d EXCEPT !.phase = "returned", !.result = result, !.counted = Tally(result)]

\* A catch block that retries without looking at MAX_RETRIES.
CaughtRetriesAlways(d) ==
    IF d.retryCount <= MaxRetries
    THEN [d EXCEPT !.phase = "backoff", !.failures = @ + 1]
    ELSE Returned([d EXCEPT !.failures = @ + 1], "failed")

\* The catch block of downloadImage: retry after a delay while
\* retryCount < MAX_RETRIES, else return {success: false}.
Caught(d) ==
    IF d.retryCount < d.MAX_RETRIES
    THEN [d EXCEPT !.phase = "backoff", !.failures = @ + 1]
    ELSE Returned([d EXCEPT !.failures = @ + 1], "failed")

UnchangedButDownload == UNCHANGED <<queueVars, pageVars, call>>

\* The body up to https.get: return skipped when the path exists, else send
\* the request.
DownloadCalled ==
    /\ download.phase = "called"
    /\ download' =
           IF download.file # "absent"
           THEN Returned(download, "skipped")
           ELSE [download EXCEPT !.phase = "requested", !.requests = @ + 1]
    /\ UnchangedButDownload

\* A 301/302 with a location: downloadImage is called for the new URL with
\* the same retryCount.
ResponseRedirect ==
    /\ download.phase = "requested"
    /\ download.redirects < MaxRedirects
    /\ download' = [download EXCEPT !.phase = "called", !.redirects = @ + 1]
    /\ UnchangedButDownload

\* Another status than 200, an error of the request, or 30 s without a
\* response: the promise rejects before any file is created.
RequestFailed ==
    /\ download.phase = "requested"
    /\ download' = Caught(download)
    /\ UnchangedButDownload

\* Status 200: fs.createWriteStream(filePath) and response.pipe(fileStream).
Response200 ==
    /\ download.phase = "requested"
    /\ download' = [download EXCEPT !.phase = "streaming", !.file = "partial"]
    /\ UnchangedButDownload

\* fileStream 'finish': the whole body is written.
StreamFinished ==
    /\ download.phase = "streaming"
    /\ download' = Returned([download EXCEPT !.file = "complete"], "downloaded")
    /\ UnchangedButDownload

\* fileStream 'error': the file is unlinked and the promise rejects.
StreamError ==
    /\ download.phase = "streaming"
    /\ download' = Caught([download EXCEPT !.file = "absent"])
    /\ UnchangedButDownload

\* The socket is idle for 30 s, or the request errors, while the body is
\* streaming: request.destroy() and reject; nothing removes the file.
StreamTimeout ==
    /\ download.phase = "streaming"
    /\ download' = Caught(download)
    /\ UnchangedButDownload

\* The delay before a retry is over: downloadImage(url, filename,
\* retryCount + 1).
RetryTimeout ==
    /\ download.phase = "backoff"
    /\ download' = [download EXCEPT !.phase = "called", !.retryCount = @ + 1]
    /\ UnchangedButDownload

NextDownload ==
    \/ DownloadCalled
    \/ ResponseRedirect
    \/ RequestFailed
    \/ Response200
    \/ StreamFinished
    \/ StreamError
    \/ StreamTimeout
    \/ RetryTimeout

SpecDownload == InitDownload /\ [][NextDownload]_vars

----------------------------------------------------------------------------
(* Claims *)

\* order holds each of 0..n-1 exactly once.
IsPermutation(order, n) ==
    Len(order) = n /\ {order[k] : k \in 1..Len(order)} = 0..(n - 1)

\* nextImage, previousImage or an interval tick with an image to move to.
NavigationStep ==
    /\ Len(selectedImages) > 0
    /\ Len(displayOrder) > 0
    /\ (KeyNext \/ KeyPrevious \/ IntervalTick)

\* C1: at most one auto-advance interval is live in every state, it is the
\* one slideshowInterval names, and every Advance/Retreat (by key or by tick)
\* leaves no interval live: the one that was live is cancelled in the same
\* step, the new one is only started by a later timeout.
C1_OneTimerLive ==
    /\ [](/\ Cardinality(intervals) <= 1
          /\ IntervalIds(intervals) \subseteq {slideshowInterval})
    /\ [][NavigationStep => intervals' = {}]_vars

\* A delayed restart of an earlier navigation is still pending while a newer
\* interval is already live.
C1_Witness ==
    active /\ restartTimeouts > 0 /\ intervals # {}

\* C2: no auto-advance interval is live while no session is active.
C2_NoTimerOutsideSession ==
    active \/ intervals = {}

\* C3: after Exit a fade-completion or image-load callback changes neither the
\* visible image, the label, the fade state nor the playback state.
C3_StaleCallbackIsNoOp ==
    [][(~active /\ (\/ FadeTimeout
                    \/ \E i \in ImageIds : ImageLoaded(i)
                    \/ \E i \in ImageIds : ImageError(i)))
          => UNCHANGED <<imageSrc, imageInfo, fadeOut, cursorVars, timerVars>>]_vars

\* C4: every swap of the visible source and label happens while the display
\* is faded out.
C4_SwapOnlyWhenFadedOut ==
    [][FadeTimeout => fadeOut]_vars

\* C5: in every Active state the order position is in range and the image
\* index is the entry of displayOrder at that position.
C5_CursorLockstep ==
    active =>
        /\ currentOrderIndex >= 0
        /\ currentOrderIndex < Len(displayOrder)
        /\ currentImageIndex = displayOrder[currentOrderIndex + 1]

\* C6: in every Active state displayOrder is a permutation of the positions
\* of the current selection.
C6_OrderIsBijection ==
    active => IsPermutation(displayOrder, Len(selectedImages))

\* C7: entering with n > 0 selected images makes the session active with
\* displayOrder a permutation of 0..n-1 (the identity when randomize is off),
\* the cursor at position 0 on displayOrder[0], that image being presented,
\* and an interval of the current duration live exactly when n > 1.
C7_Enter ==
    [][(FullscreenEntered /\ Len(selectedImages) > 0) =>
          LET n == Len(selectedImages)
          IN /\ active'
             /\ IsPermutation(displayOrder', n)
             /\ ~randomizeOrder => displayOrder' = [k \in 1..n |-> k - 1]
             /\ currentOrderIndex' = 0
             /\ currentImageIndex' = displayOrder'[1]
             /\ fadeOut'
             /\ imageLoads' = [imageLoads EXCEPT
                                 ![selectedImages[displayOrder'[1] + 1]] = @ + 1]
             /\ (n > 1) <=> (intervals' # {})
             /\ \A t \in intervals' :
                    t.id = slideshowInterval' /\ t.period = displayDuration]_vars

\* Just entered in random order: the second image is first and is loading.
C7_Witness ==
    /\ active
    /\ displayOrder = <<1, 0>>
    /\ currentOrderIndex = 0
    /\ currentImageIndex = 1
    /\ imageLoads[selectedImages[2]] = 1
    /\ intervals # {}

\* C8: with nothing selected, the Start click and the fullscreen-entered
\* event each show a message and leave the session inactive and the cursor,
\* displayOrder and timers as they were.
C8_EmptyEnterRejected ==
    [][(Len(selectedImages) = 0 /\ (StartButtonClick \/ FullscreenEntered)) =>
          /\ messageBox' # ""
          /\ ~active'
          /\ UNCHANGED <<cursorVars, timerVars, active>>]_vars

\* The selection was emptied while the fullscreen request was pending, and
\* the entered event was rejected.
C8_Witness ==
    /\ messageBox = "No images selected. Please select at least one image."
    /\ fullscreen = "full"
    /\ ~active

\* C9: in a session with exactly one selected image no interval is live and
\* the order position is 0.
C9_SingleImage ==
    (active /\ Len(selectedImages) = 1) =>
        /\ intervals = {}
        /\ slideshowInterval = 0
        /\ currentOrderIndex = 0

\* A single-image session in which a delayed restart of an earlier session
\* is still to fire.
C9_Witness ==
    active /\ Len(selectedImages) = 1 /\ restartTimeouts > 0

\* The cursor after n calls of nextImage.
RECURSIVE AdvanceTimes(_, _)
AdvanceTimes(cursor, n) ==
    IF n = 0 THEN cursor ELSE AdvanceTimes(MovedCursor(cursor, 1), n - 1)

\* C10: in every Active state, Len(displayOrder) calls of nextImage bring the
\* order position and the image index back to their values.
C10_AdvanceCyclic ==
    (active /\ Len(displayOrder) >= 1) =>
        AdvanceTimes(Cursor, Len(displayOrder)) = Cursor

\* C11: in every Active state, nextImage followed by previousImage brings the
\* order position and the image index back to their values.
C11_RetreatUndoesAdvance ==
    (active /\ Len(displayOrder) >= 1) =>
        MovedCursor(MovedCursor(Cursor, 1), -1) = Cursor

\* C12: a randomize toggle in an Active session leaves the image index as it
\* was and leaves the order position on that image in the order it leaves;
\* the position is 0 when the order does not hold the image index.
C12_ReshuffleKeepsImage ==
    [][(active /\ RandomizeChange) =>
          /\ currentImageIndex' = currentImageIndex
          /\ IF IndexOf(displayOrder', currentImageIndex) # -1
             THEN JsAt(displayOrder', currentOrderIndex') = currentImageIndex
             ELSE currentOrderIndex' = 0]_vars

\* C13: every randomize toggle in an Active session regenerates displayOrder:
\* after a toggle to sequential it is the identity order.
C13_ToggleRegenerates ==
    [][(active /\ RandomizeChange /\ ~randomizeOrder') =>
          displayOrder' = [k \in 1..Len(selectedImages) |-> k - 1]]_vars

\* C14: a step of an Active session that empties the selection ends the
\* session: no interval stays live and a message is shown.
C14_EmptiedSelectionExits ==
    [][(active /\ Len(selectedImages) > 0 /\ Len(selectedImages') = 0) =>
          /\ ~active'
          /\ intervals' = {}
          /\ messageBox' # ""]_vars

C17_CacheEmptyOutsideSession ==
    active \/ preloadedImages = {}

\* C18: the cache grows only by the onload of a preload, by the image that
\* loaded; a failed preload leaves the cache, the cursor, the timers and the
\* visible image as they were; and the next Enter requests again every
\* selected image the cache does not hold.
C18_CacheOnlySuccessful ==
    /\ [][\/ preloadedImages' \subseteq preloadedImages
          \/ \E i \in ImageIds :
                 PreloadLoaded(i) /\ preloadedImages' = preloadedImages \cup {i}]_vars
    /\ [][(\E i \in ImageIds : PreloadError(i)) =>
             UNCHANGED <<preloadedImages, cursorVars, timerVars, imageSrc,
                         imageInfo, fadeOut, active>>]_vars
    /\ [][(/\ FullscreenEntered
           /\ Len(selectedImages) > 0
           /\ Len(selectedImages) <= PreloadOnEnter) =>
             ({selectedImages[k] : k \in 1..Len(selectedImages)} \ preloadedImages)
                 \subseteq preloading']_vars

\* In this session the preload of the second image failed and that of the
\* first succeeded: only the first is in the cache, nothing is in flight.
C18_Witness ==
    /\ active
    /\ preloadedImages = {1}
    /\ preloading = {}

C20_InvalidDuration ==
    [][\A seconds \in TypedSeconds :
          ((seconds = NaN \/ seconds < 1) /\ DurationChange(seconds)) =>
              /\ UNCHANGED <<displayDuration, timerVars, cursorVars, imageSrc,
                             imageInfo, fadeOut, active>>
              /\ durationInput' = displayDuration \div 1000
              /\ messageBox' = "Duration must be at least 1 second."]_vars

\* An invalid value was typed in a session running at 2 s: the message is
\* shown, the input is back at 2 and the interval still has 2000 ms.
C20_Witness ==
    /\ active
    /\ messageBox = "Duration must be at least 1 second."
    /\ durationInput = 2
    /\ displayDuration = 2000
    /\ intervals = {[id |-> 1, period |-> 2000]}

C21_SequentialIsIdentity ==
    (call.fn = "generateDisplayOrder" /\ call.done)
        => /\ ~call.randomize => call.order = [k \in 1..call.length |-> k - 1]
           /\ call.length = 0 => call.order = <<>>

C21_Witness ==
    /\ call.fn = "generateDisplayOrder" /\ call.done
    /\ ~call.randomize
    /\ call.order = <<0, 1, 2>>

\* The permutations of 0..n-1 as orders of length n.
PermutationsOf(n) == {o \in [1..n -> 0..(n - 1)] : IsPermutation(o, n)}

\* C22: with randomize on, whatever swap indices j in 0..i the shuffle draws
\* for i = length - 1 down to 1, the order returned is a permutation of
\* 0..length-1, and every permutation is returned for some draws.
C22_ShuffleIsAnyPermutation ==
    (call.fn = "generateDisplayOrder" /\ call.randomize)
        => /\ call.done => IsPermutation(call.order, call.length)
           /\ ~call.done =>
                  PermutationsOf(call.length)
                      \subseteq generateDisplayOrder(call.length, TRUE)

C22_Witness ==
    /\ call.fn = "generateDisplayOrder" /\ call.done
    /\ call.randomize
    /\ call.order = <<1, 2, 0>>

\* C23: entering again after an exit starts from the beginning: the cursor
\* position is 0, displayOrder is generated anew for the selection and the
\* randomize setting of that moment, and the image is displayOrder[0],
\* whatever cursor and order the previous session left and whatever
\* callbacks of it are still pending.
C23_ReEnterStartsAfresh ==
    [][(FullscreenEntered /\ ~active /\ displayOrder # <<>>
            /\ Len(selectedImages) > 0) =>
          /\ currentOrderIndex' = 0
          /\ Len(displayOrder') = Len(selectedImages)
          /\ IF randomizeOrder
             THEN {displayOrder'[k] : k \in 1..Len(displayOrder')}
                      = {i - 1 : i \in 1..Len(selectedImages)}
             ELSE \A k \in 1..Len(displayOrder') : displayOrder'[k] = k - 1
          /\ currentImageIndex' = displayOrder'[1]]_vars

\* A session of one image, entered while a timer restart of the previous
\* session of two images is still pending.
C23_Witness ==
    /\ active
    /\ displayOrder = <<0>>
    /\ currentOrderIndex = 0
    /\ currentImageIndex = 0
    /\ restartTimeouts > 0
    /\ intervals = {}

\* C24: Restart shows the first image of the playback sequence and puts the
\* cursor at its start: position 0 and image displayOrder[0], so that the
\* next advance shows the second image of the sequence.
C24_RestartFromFirst ==
    [][(RestartButtonClick /\ active /\ Len(selectedImages) > 0
            /\ Len(displayOrder) = Len(selectedImages)) =>
          /\ currentOrderIndex' = 0
          /\ currentImageIndex' = displayOrder'[1]
          /\ MovedCursor(Cursor, 1)' =
                 [orderIndex |-> 1 % Len(displayOrder),
                  imageIndex |-> displayOrder[(1 % Len(displayOrder)) + 1]]]_vars

\* The image at position p of the order, p taken modulo its length.
ImageAtPosition(order, p) ==
    SelectionOf(Len(order))[order[(p % Len(order)) + 1] + 1]

\* C25: after an advance the images handed to the preloader are those at
\* the display-order positions currentOrderIndex + 1, + 2 and + 3, modulo
\* the length, in sequential and in randomized order.
C25_AdvancePreloadsNextPositions ==
    (call.fn = "nextImage" /\ call.done)
        => call.requested =
               {ImageAtPosition(call.displayOrder, call.cursor.orderIndex + k) :
                    k \in 1..PreloadAhead}

\* C26: after a retreat the images handed to the preloader are those at
\* the display-order positions currentOrderIndex - 1 and - 2, modulo the
\* length.
C26_RetreatPreloadsPreviousPositions ==
    (call.fn = "previousImage" /\ call.done)
        => call.requested =
               {ImageAtPosition(call.displayOrder,
                                call.cursor.orderIndex - k
                                    + PreloadBehind * Len(call.displayOrder)) :
                    k \in 1..PreloadBehind}

\* C27: preloadImages(startIndex, count) on a selection of n > 0 images
\* requests exactly the images at selection indices (startIndex + i) mod n,
\* 0 <= i < count, that are not in the cache when it is called; on an empty
\* selection it requests nothing.
C27_PreloadRequestsUncached ==
    (call.fn = "preloadImages" /\ call.done)
        => call.requested =
               IF call.length = 0 THEN {}
               ELSE {((call.startIndex + i) % call.length) + 1 :
                         i \in 0..(call.count - 1)} \ call.cache

\* Five images from index 3 on a selection of four, two of them cached:
\* the indices wrap around and only the other two are requested.
C27_Witness ==
    /\ call.fn = "preloadImages" /\ call.done
    /\ call.length = 4 /\ call.startIndex = 3 /\ call.count = PreloadOnEnter
    /\ call.cache = {1, 4}
    /\ call.requested = {2, 3}

\* C28: loadImagesFromFolder makes the catalog of exactly the listed files,
\* ordered by name ascending and every entry selected, so that the
\* selection right after it is the whole catalog in sorted order.
C28_LoadSortsAndSelectsAll ==
    (call.fn = "loadImagesFromFolder" /\ call.done /\ call.response = "ok"
            /\ Len(call.listing) > 0)
        => LET catalog == call.folderImages
               n == Len(call.listing)
           IN /\ Len(catalog) = n
              /\ {catalog[k].name : k \in 1..Len(catalog)}
                     = {call.listing[k] : k \in 1..n}
              /\ \A k \in 1..(Len(catalog) - 1) :
                     catalog[k].name <= catalog[k + 1].name
              /\ \A k \in 1..Len(catalog) : catalog[k].selected
              /\ call.selectedImages = [k \in 1..Len(catalog) |-> catalog[k].name]

\* The files listed as 2, 1 ("b, a") load as 1, 2.
C28_Witness ==
    /\ call.fn = "loadImagesFromFolder" /\ call.done
    /\ call.listing = <<2, 1>>
    /\ call.selectedImages = <<1, 2>>

\* C29: whatever checkboxes were changed and whichever of Select All and
\* Deselect All were clicked, selectedImages is exactly the catalog entries
\* whose selected flag is set, in catalog order; checking entry i after
\* Deselect All leaves the selection [i].
C29_SelectionIsSelectedEntries ==
    /\ [](/\ \A k \in 1..(Len(selectedImages) - 1) :
                selectedImages[k] < selectedImages[k + 1]
          /\ {selectedImages[k] : k \in 1..Len(selectedImages)}
                 = {i \in 1..Len(folderImages) : folderImages[i]})
    /\ [][\A i \in 1..Len(folderImages) :
             (ThumbnailChange(i) /\ \A j \in 1..Len(folderImages) : ~folderImages[j])
                 => selectedImages' = <<i>>]_vars

\* The second image alone is selected, before any session.
C29_Witness ==
    /\ folderImages = <<FALSE, TRUE>>
    /\ selectedImages = <<2>>
    /\ ~startButtonDisabled
    /\ fullscreen = "none"
    /\ displayOrder = <<>>

\* C30: a checkbox change flips the selected flag of its own entry and of
\* no other and keeps the catalog's length; Select All and Deselect All set
\* the flag of every entry and the selection is recomputed from all of them
\* in the same step.
C30_SelectionFrame ==
    [][/\ \A i \in 1..Len(folderImages) :
             ThumbnailChange(i) =>
                 /\ Len(folderImages') = Len(folderImages)
                 /\ folderImages'[i] # folderImages[i]
                 /\ \A j \in 1..Len(folderImages) :
                        j # i => folderImages'[j] = folderImages[j]
       /\ SelectAllClick =>
             /\ Len(folderImages') = Len(folderImages)
             /\ \A j \in 1..Len(folderImages') : folderImages'[j]
             /\ selectedImages' = [k \in 1..Len(folderImages) |-> k]
       /\ DeselectAllClick =>
             /\ Len(folderImages') = Len(folderImages)
             /\ \A j \in 1..Len(folderImages') : ~folderImages'[j]
             /\ selectedImages' = <<>>]_vars

\* Deselect All has just emptied the selection of a loaded catalog.
C30_Witness ==
    /\ Len(folderImages) = NumImages
    /\ \A j \in 1..Len(folderImages) : ~folderImages[j]
    /\ selectedImages = <<>>
    /\ messageBox = "All photos deselected."

\* C31: when the listing comes back empty, or the response is not ok, or
\* the fetch throws, the catalog is built from the sample images: every
\* sample is in it once, selected, the names ascending, and so is the
\* selection; the catalog is empty only if there are no samples.
C31_FallbackToSamples ==
    (call.fn = "loadImagesFromFolder" /\ call.done
            /\ (call.response # "ok" \/ Len(call.listing) = 0))
        => LET catalog == call.folderImages
           IN /\ Len(catalog) = Len(SampleImages)
              /\ {catalog[k].name : k \in 1..Len(catalog)}
                     = {SampleImages[k] : k \in 1..Len(SampleImages)}
              /\ \A k \in 1..(Len(catalog) - 1) :
                     catalog[k].name < catalog[k + 1].name
              /\ \A k \in 1..Len(catalog) : catalog[k].selected
              /\ call.selectedImages = [k \in 1..Len(catalog) |-> catalog[k].name]
              /\ (Len(catalog) = 0) => (Len(SampleImages) = 0)

\* The fetch threw and the twenty samples were loaded, image1.jpg first.
C31_Witness ==
    /\ call.fn = "loadImagesFromFolder" /\ call.done
    /\ call.response = "error"
    /\ Len(call.folderImages) = 20
    /\ call.folderImages[1].name = 1

\* C32: a randomize toggle during a session neither resets the timer nor
\* presents anything: the interval handle, the live intervals with their
\* periods, the pending restarts, the image and label shown and the loads
\* and fades in flight are the same after it as before.
C32_ReshuffleKeepsTimerAndImage ==
    [][(active /\ RandomizeChange) =>
          /\ slideshowInterval' = slideshowInterval
          /\ intervals' = intervals
          /\ restartTimeouts' = restartTimeouts
          /\ imageSrc' = imageSrc
          /\ imageInfo' = imageInfo
          /\ fadeOut' = fadeOut
          /\ imageLoads' = imageLoads
          /\ fadeTimeouts' = fadeTimeouts]_vars

\* Randomize was just switched on in a running session showing an image.
C32_Witness ==
    /\ active
    /\ randomizeOrder
    /\ messageBox = "random order"
    /\ slideshowInterval # 0
    /\ imageSrc[1] = "image"
    /\ ~fadeOut

\* C33: when the browser has no fullscreen API, or denies the request, a
\* message is shown and no session starts: displayOrder, the cursor and
\* the timers stay as they were and nothing is presented.
C33_FullscreenFailureSurfaced ==
    [][(\/ StartButtonClick /\ Len(selectedImages) > 0 /\ ~fullscreenSupported
        \/ FullscreenRejected
        \/ FullscreenDeniedPrefixed) =>
          /\ messageBox' # ""
          /\ ~active'
          /\ displayOrder' = displayOrder
          /\ currentOrderIndex' = currentOrderIndex
          /\ currentImageIndex' = currentImageIndex
          /\ slideshowInterval' = slideshowInterval
          /\ intervals' = intervals
          /\ restartTimeouts' = restartTimeouts
          /\ UNCHANGED presentVars]_vars

\* The same with the message left out: no session starts.
C33_FullscreenFailureStaysIdle ==
    [][(\/ StartButtonClick /\ Len(selectedImages) > 0 /\ ~fullscreenSupported
        \/ FullscreenRejected
        \/ FullscreenDeniedPrefixed) =>
          /\ ~active'
          /\ UNCHANGED <<cursorVars, timerVars, presentVars>>]_vars

\* C34: the last displayImage call wins: in a session with no image load
\* and no fade timeout of displayImage outstanding, the image and label
\* shown are those of the image at the cursor, or the error placeholder
\* with that image's name, in whatever order overlapping loads completed.
C34_LastPresentWins ==
    (active /\ Inflight = 0 /\ IsIndex(currentImageIndex, selectedImages)) =>
        LET img == selectedImages[currentImageIndex + 1]
        IN \/ imageSrc = <<"image", img>> /\ imageInfo = <<"name", img>>
           \/ /\ imageSrc = <<"error-placeholder", 0>>
              /\ imageInfo = <<"Error loading", img>>

\* C35: the queue never runs more than concurrency tasks at once, however
\* add calls, completions and failures interleave, and a waiting task is
\* started only by the finally job of a task that has finished, into the
\* slot that task freed.
C35_AtMostConcurrencyRunning ==
    /\ [](running >= 0 /\ running <= concurrency)
    /\ [][Len(tasks') < Len(tasks) =>
             /\ FinallyJob
             /\ completed > 0
             /\ running < concurrency
             /\ running' = running + 1
             /\ tasks' = Tail(tasks)
             /\ taskStarts'[Head(tasks)] = 1]_vars

\* Two tasks run, a third has waited and was then started.
C35_Witness ==
    /\ concurrency = 2
    /\ total = 3
    /\ running = 2
    /\ completed = 1
    /\ tasks = <<>>
    /\ \A t \in 1..3 : taskStarts[t] = 1

\* The accounting of the queue: every added task is waiting, running or
\* completed, no task is started twice, and onDrain is invoked only when
\* nothing runs and nothing waits, which is after every task added so far
\* has completed.
C36_QueueAccounting ==
    /\ [](running + completed + Len(tasks) = total)
    /\ [](\A t \in TaskIds : taskStarts[t] <= 1)
    /\ [][drained' > drained =>
             running = 0 /\ tasks = <<>> /\ completed = total]_vars

\* C36: every added task is started exactly once and the queue drains
\* exactly once: running + completed + pending = total always, and when
\* every task was added before any completed, onDrain is invoked once and
\* no more, after every added task has completed.
C36_DrainsExactlyOnce ==
    /\ running + completed + Len(tasks) = total
    /\ \A t \in TaskIds : taskStarts[t] <= 1
    /\ (drained > 0 /\ ~lateAdd) => (completed = total /\ drained = 1)

\* C37: downloadImage retries a failed download at most MAX_RETRIES times,
\* retryCount going up by one per retry and only after a failure, so no
\* more than MAX_RETRIES + 1 attempts fail; when the last one has failed it
\* returns {success: false}, which the task counts under failed.
C37_BoundedRetries ==
    /\ [](/\ download.retryCount <= download.MAX_RETRIES
          /\ download.failures <= download.MAX_RETRIES + 1
          /\ download.retryCount <= download.failures
          /\ (download.failures = download.MAX_RETRIES + 1)
                => (download.result = "failed" /\ download.counted = "failed")
          /\ (download.result = "failed")
                => download.failures = download.MAX_RETRIES + 1)
    /\ [][download'.retryCount # download.retryCount =>
             /\ download'.retryCount = download.retryCount + 1
             /\ download.phase = "backoff"
             /\ download'.failures = download.failures]_vars

\* With two retries allowed, three attempts failed and the download was
\* counted as failed.
C37_Witness ==
    /\ download.phase = "returned"
    /\ download.MAX_RETRIES = 2
    /\ download.retryCount = 2
    /\ download.failures = 3
    /\ download.counted = "failed"

\* C38: downloadImage reports success, downloaded or skipped, only when
\* the file was there before the first attempt or an attempt wrote it to
\* the end; the partial file of a failed or timed-out attempt is never
\* reported as success by a retry.
C38_SuccessOnlyForCompleteFile ==
    (download.phase = "returned"
            /\ download.result \in {"downloaded", "skipped"})
        => (download.existed \/ download.file = "complete")

\* C39: one preloadImages call issues at most one load request per image,
\* also when count is larger than the selection and the indices wrap
\* around, as for the five-image preload on entering with two images.
C39_OneRequestPerImage ==
    (call.fn = "preloadImages" /\ call.done)
        => \A a, b \in 1..Len(call.issued) :
               call.issued[a] = call.issued[b] => a = b

============================================================================
